---- MODULE Spec2Model ----
(***************************************************************************)
(* The rating / aggregation subsystem of the "cocktail of the day" web     *)
(* application (Website/server.js): the CocktailRatings and Moods tables   *)
(* of the SQLite database and the five Express routes that query them, and *)
(* the browser scripts that call them (Website/public/home.js and          *)
(* Website/public/cocktail-info.js).                                       *)
(*                                                                         *)
(* A route handler and the callback of its single SQL statement are one    *)
(* action: the statement's parameters are bound when the handler runs, the *)
(* database engine executes each statement atomically, and the callback    *)
(* reads nothing but the statement's result.  The upstream lookup that     *)
(* three routes chain after the statement reads only the id captured in    *)
(* the closure; its outcome is an input of the action.                     *)
(***************************************************************************)
EXTENDS Integers, Sequences, FiniteSets, TLC

VARIABLES
    CocktailRatings,  \* the rows of table CocktailRatings, in insertion (rowid) order
    Moods,            \* the rows of table Moods (static reference data)
    acked,            \* history: the bodies of the POSTs answered with the success message
    lastResp,         \* the HTTP exchange completed by the latest step
    sessionStorage,   \* the tab's sessionStorage: the three keys the scripts use
    page,             \* the document shown in the tab and its script state
    net,              \* the fetch calls in flight, each with its continuation
    dom,              \* what the scripts have put on screen
    calls,            \* the display calls of the current document
    user              \* history: the number of actions of the user so far

browser == <<sessionStorage, page, net, dom, calls, user>>
vars == <<CocktailRatings, Moods, acked, lastResp,
          sessionStorage, page, net, dom, calls, user>>

\* SQL NULL in a rated_date column; a calendar date 'YYYY-MM-DD' is <<y, m, d>>.
NULL == <<>>

----------------------------------------------------------------------------
(* Calendar arithmetic of the JavaScript Date object, on local day numbers *)
(* (days since 1970-01-01).                                                *)

\* The day number of year y, month m (1..12), day d.  It is linear in d: a day
\* of month outside the month's days overflows into the neighbouring months,
\* as MakeDay / Date.prototype.setDate do.
DaysFromCivil(y, m, d) ==
    LET yy == IF m <= 2 THEN y - 1 ELSE y
        era == yy \div 400
        yoe == yy - era * 400
        mp == IF m > 2 THEN m - 3 ELSE m + 9
        doy == (153 * mp + 2) \div 5 + d - 1
        doe == yoe * 365 + yoe \div 4 - yoe \div 100 + doy
    IN  era * 146097 + doe - 719468

\* <<year, month (1..12), day of month>> of a day number.
Civil(day) ==
    LET z == day + 719468
        era == z \div 146097
        doe == z - era * 146097
        yoe == (doe - doe \div 1460 + doe \div 36524 - doe \div 146096) \div 365
        doy == doe - (365 * yoe + yoe \div 4 - yoe \div 100)
        mp == (5 * doy + 2) \div 153
        d == doy - (153 * mp + 2) \div 5 + 1
        m == IF mp < 10 THEN mp + 3 ELSE mp - 9
    IN  <<yoe + era * 400 + (IF m <= 2 THEN 1 ELSE 0), m, d>>

getFullYear(day) == Civil(day)[1]
getMonth(day) == Civil(day)[2] - 1
getDate(day) == Civil(day)[3]
\* 0 = Sunday .. 6 = Saturday; 1970-01-01 was a Thursday.
getDay(day) == (day + 4) % 7
setDate(day, n) == DaysFromCivil(getFullYear(day), getMonth(day) + 1, n)

\* Comparison of two 'YYYY-MM-DD' texts (fixed width, zero padded).
DateLeq(a, b) ==
    \/ a[1] < b[1]
    \/ a[1] = b[1] /\ a[2] < b[2]
    \/ a[1] = b[1] /\ a[2] = b[2] /\ a[3] <= b[3]

----------------------------------------------------------------------------
(* HTTP exchanges.                                                         *)

NoResp ==
    [route |-> "none", status |-> 0, message |-> "", dbErr |-> FALSE,
     id |-> "", rating |-> 0, date |-> NULL,
     averageRating |-> "", ratingCount |-> 0,
     resolved |-> "", apiCalled |-> FALSE, drink |-> "",
     now |-> 0, utc |-> 0, from |-> NULL, to |-> NULL, mood |-> ""]

----------------------------------------------------------------------------
(* POST /submit-rating                                                     *)

\* The model stops accepting submissions at this table size.
MaxRatings == 2

\* INSERT OR REPLACE under a key on cocktail_id: a second rating of a cocktail
\* overwrites the first.
Insert_Replace(t, row) ==
    IF \E i \in DOMAIN t : t[i].cocktail_id = row.cocktail_id
    THEN [i \in DOMAIN t |-> IF t[i].cocktail_id = row.cocktail_id THEN row ELSE t[i]]
    ELSE Append(t, row)

\* INSERT OR IGNORE under a key on all columns: an identical row is not stored.
Insert_IfAbsent(t, row) ==
    IF \E i \in DOMAIN t : t[i] = row THEN t ELSE Append(t, row)

\* INSERT INTO CocktailRatings (cocktail_id, rating, rated_date) VALUES (?, ?, ?)
Insert(t, row) == Append(t, row)

SubmitRating(id, rating, date, err) ==
    /\ Len(CocktailRatings) < MaxRatings
    /\ IF err
       THEN /\ lastResp' = [NoResp EXCEPT !.route = "submit-rating", !.status = 500,
                               !.message = "Error saving the rating", !.dbErr = TRUE,
                               !.id = id, !.rating = rating, !.date = date]
            /\ UNCHANGED <<CocktailRatings, acked>>
       ELSE /\ CocktailRatings' =
                  Insert(CocktailRatings,
                         [cocktail_id |-> id, rating |-> rating, rated_date |-> date])
            /\ acked' = Append(acked, [id |-> id, rating |-> rating, date |-> date])
            /\ lastResp' = [NoResp EXCEPT !.route = "submit-rating", !.status = 200,
                               !.message = "Rating submitted successfully",
                               !.id = id, !.rating = rating, !.date = date]
    /\ UNCHANGED Moods

----------------------------------------------------------------------------
(* SQL aggregates over a sequence of CocktailRatings rows.                 *)

RECURSIVE SumRatings(_)
SumRatings(rows) == IF rows = <<>> THEN 0 ELSE rows[1].rating + SumRatings(Tail(rows))

\* The WHERE clause lost: every row is aggregated.
WhereCocktailId_All(t, cocktailId) == t

WhereCocktailId(t, cocktailId) == SelectSeq(t, LAMBDA r : r.cocktail_id = cocktailId)

\* AVG(rating): NULL over no row, else the quotient sum / count, kept exact as
\* <<sum, count>>.  (With fewer than 8 rows no mean lies on a rounding boundary
\* of two decimals, so the double's last-bit error never changes toFixed(2).)
AVG(rows) == IF rows = <<>> THEN NULL ELSE <<SumRatings(rows), Len(rows)>>

\* COUNT(rated_date): the rows whose rated_date is not NULL.
COUNT(rows) == Len(SelectSeq(rows, LAMBDA r : r.rated_date # NULL))

\* JavaScript truthiness of a number-or-null: null and 0 are falsy.
Truthy(avg) == avg # NULL /\ avg[1] # 0

\* Number.prototype.toFixed(2) of a non-negative quotient: the nearest
\* hundredth, the larger one on a tie, printed with two decimals.
toFixed(avg) ==
    LET n == (200 * avg[1] + avg[2]) \div (2 * avg[2])
    IN  ToString(n \div 100) \o "." \o ToString((n % 100) \div 10) \o ToString(n % 10)

\* The sentinel lost: (row.avgRating || 0).toFixed(2).
AverageRatingBody_NoSentinel(t, cocktailId) ==
    LET rows == WhereCocktailId(t, cocktailId)
        avg == AVG(rows)
    IN  [averageRating |-> toFixed(IF Truthy(avg) THEN avg ELSE <<0, 1>>),
         ratingCount |-> COUNT(rows)]

AverageRatingBody(t, cocktailId) ==
    LET rows == WhereCocktailId(t, cocktailId)
        row == [avgRating |-> AVG(rows), ratingCount |-> COUNT(rows)]
    IN  [averageRating |-> IF Truthy(row.avgRating) THEN toFixed(row.avgRating)
                           ELSE "Not rated",
         ratingCount |-> row.ratingCount]

(* GET /average-rating/:cocktailId                                         *)
AverageRating(cocktailId, err) ==
    /\ IF err
       THEN lastResp' = [NoResp EXCEPT !.route = "average-rating", !.status = 500,
                            !.message = "Error fetching average rating",
                            !.dbErr = TRUE, !.id = cocktailId]
       ELSE LET body == AverageRatingBody(CocktailRatings, cocktailId)
            IN  lastResp' = [NoResp EXCEPT !.route = "average-rating", !.status = 200,
                                !.id = cocktailId,
                                !.averageRating = body.averageRating,
                                !.ratingCount = body.ratingCount]
    /\ UNCHANGED <<CocktailRatings, Moods, acked>>

----------------------------------------------------------------------------
(* The top-rated routes.                                                   *)

\* a / b >= c / d for two AVG values (positive counts).
AvgGeq(a, b) == a[1] * b[2] >= b[1] * a[2]

GroupIds(rows) == {rows[i].cocktail_id : i \in DOMAIN rows}

\* GROUP BY cocktail_id ORDER BY avgRating DESC LIMIT 1: the rows the engine
\* may return first.  SQL leaves the order of groups with equal avgRating
\* open, so every group of maximal mean is a possible first row.
TopByAvg(rows) ==
    {g \in GroupIds(rows) :
        \A h \in GroupIds(rows) :
            AvgGeq(AVG(WhereCocktailId(rows, g)), AVG(WhereCocktailId(rows, h)))}

\* The year not compared: WHERE strftime('%m', rated_date) = $1.
WhereMonth_AnyYear(t, month, year) ==
    SelectSeq(t, LAMBDA r : r.rated_date # NULL /\ r.rated_date[2] = month)

\* WHERE strftime('%m', rated_date) = $1 AND strftime('%Y', rated_date) = $2,
\* with $1 the month padded to two digits and $2 the year.
WhereMonth(t, month, year) ==
    SelectSeq(t, LAMBDA r : r.rated_date # NULL /\ r.rated_date[2] = month
                                               /\ r.rated_date[1] = year)

\* WHERE rated_date BETWEEN date(?) AND date(?)
WhereBetween(t, from, to) ==
    SelectSeq(t, LAMBDA r : r.rated_date # NULL /\ DateLeq(from, r.rated_date)
                                               /\ DateLeq(r.rated_date, to))

\* The chained lookup of the resolved id on the external API and the answer
\* the route sends for each outcome.
Hydrate(resp, id, api) ==
    LET r == [resp EXCEPT !.resolved = id, !.apiCalled = TRUE]
    IN  CASE api = "drink" -> [r EXCEPT !.status = 200, !.drink = id]
          [] api = "empty" -> [r EXCEPT !.status = 404, !.message = "Cocktail not found"]
          [] OTHER         -> [r EXCEPT !.status = 500,
                                        !.message = "Error fetching from the API"]

\* A route that resolves one id from `candidates` (none when empty).
ResolveAndHydrate(resp, candidates, err, api, errMsg, noneMsg) ==
    /\ IF err
       THEN lastResp' = [resp EXCEPT !.status = 500, !.message = errMsg, !.dbErr = TRUE]
       ELSE IF candidates = {}
       THEN lastResp' = [resp EXCEPT !.status = 404, !.message = noneMsg]
       ELSE \E id \in candidates : lastResp' = Hydrate(resp, id, api)
    /\ UNCHANGED <<CocktailRatings, Moods, acked>>

(* GET /top-rated-cocktail; now = <<local day number, UTC day - local day>> *)
TopRatedCocktail(now, err, api) ==
    LET currentMonth == getMonth(now[1]) + 1
        currentYear == getFullYear(now[1])
        rows == WhereMonth(CocktailRatings, currentMonth, currentYear)
    IN  ResolveAndHydrate(
            [NoResp EXCEPT !.route = "top-rated-cocktail", !.now = now[1], !.utc = now[2]],
            TopByAvg(rows), err, api,
            "Error fetching the top-rated cocktail for the current month",
            "No top-rated cocktails found for the current month")

\* toISOString().split('T')[0]: the calendar date, in UTC, of the instant that
\* has local day `day` and the request's time of day (setDate keeps the local
\* time of day; the zone's offset is taken not to change within the week).
toISODate(day, utc) == Civil(day + utc)

firstDayOfWeek(today) ==
    setDate(today, getDate(today) - getDay(today) + (IF getDay(today) = 0 THEN -6 ELSE 1))

lastDayOfWeek(today) ==
    LET first == firstDayOfWeek(today) IN setDate(first, getDate(first) + 6)

(* GET /top-rated-cocktail-week                                            *)
TopRatedCocktailWeek(now, err, api) ==
    LET from == toISODate(firstDayOfWeek(now[1]), now[2])
        to == toISODate(lastDayOfWeek(now[1]), now[2])
        rows == WhereBetween(CocktailRatings, from, to)
    IN  ResolveAndHydrate(
            [NoResp EXCEPT !.route = "top-rated-cocktail-week", !.now = now[1],
                           !.utc = now[2], !.from = from, !.to = to],
            TopByAvg(rows), err, api,
            "Error fetching the top-rated cocktail for the current week",
            "No top-rated cocktails found for the current week")

----------------------------------------------------------------------------
(* GET /cocktail-by-mood                                                   *)

\* WHERE Mood LIKE ?: the label matched without regard to case.
MoodMatches_Like(t, mood) ==
    LET lower(m) == IF m = "Happy" THEN "happy" ELSE m
    IN  {t[i].ID : i \in {j \in DOMAIN t : lower(t[j].Mood) = lower(mood)}}

\* SELECT ID FROM Moods WHERE Mood = ? ORDER BY RANDOM() LIMIT 1: any
\* matching row may come first.
MoodMatches(t, mood) == {t[i].ID : i \in {j \in DOMAIN t : t[j].Mood = mood}}

CocktailByMood(mood, err, api) ==
    ResolveAndHydrate(
        [NoResp EXCEPT !.route = "cocktail-by-mood", !.mood = mood],
        MoodMatches(Moods, mood), err, api,
        "Error fetching from the database",
        "No cocktails found for this mood")

----------------------------------------------------------------------------
(* The browser tab before any document is opened.                          *)

\* A section's content as the markup delivers it, before a script writes it.
\* rating holds the rating paragraphs of the section, first child first.
Static == [kind |-> "static", drink |-> "", rating |-> <<>>]

\* The sections the scripts write, and the latest alert box.
EmptyDom ==
    [cocktailOfTheDay |-> Static, suggestion |-> Static, cocktailInfo |-> Static,
     alert |-> ""]

NoSession ==
    /\ sessionStorage = [ratedCocktails |-> NULL, cocktailOfTheDay |-> "",
                         suggestion |-> ""]
    /\ page = [name |-> "none", cocktailId |-> "", ratedCocktails |-> <<>>]
    /\ net = {}
    /\ dom = EmptyDom
    /\ calls = <<>>
    /\ user = [events |-> 0]

----------------------------------------------------------------------------
(* Input domains.                                                          *)

CocktailIds == {"A", "B"}
ApiOutcomes == {"drink", "empty", "fail"}

\* Friday 2024-03-01, as a local day number.
Day20240301 == DaysFromCivil(2024, 3, 1)

----------------------------------------------------------------------------
(* Spec: the rating store and its aggregate, with every route of the       *)
(* server.  The route validates neither field: a rating of 0 is accepted,  *)
(* and a body without a date stores NULL.                                  *)

Init ==
    /\ CocktailRatings = <<>>
    /\ Moods = <<[ID |-> "A", Mood |-> "happy"]>>
    /\ acked = <<>>
    /\ lastResp = NoResp
    /\ NoSession

Next ==
    \/ \E id \in CocktailIds, rating \in {0, 5}, date \in {<<2024, 3, 1>>, NULL},
          err \in BOOLEAN :
           SubmitRating(id, rating, date, err) /\ UNCHANGED browser
    \/ \E cocktailId \in CocktailIds, err \in BOOLEAN :
           AverageRating(cocktailId, err) /\ UNCHANGED browser
    \/ \E err \in BOOLEAN, api \in ApiOutcomes :
           TopRatedCocktail(<<Day20240301, 0>>, err, api) /\ UNCHANGED browser
    \/ \E err \in BOOLEAN, api \in ApiOutcomes :
           TopRatedCocktailWeek(<<Day20240301, 0>>, err, api) /\ UNCHANGED browser
    \/ \E mood \in {"happy", "sad"}, err \in BOOLEAN, api \in ApiOutcomes :
           CocktailByMood(mood, err, api) /\ UNCHANGED browser

Spec == Init /\ [][Next]_vars

----------------------------------------------------------------------------
(* SpecTop: the top-rated routes over ratings dated around the turn of a   *)
(* month, asked at instants on both sides of it.  An instant is            *)
(* <<local day, u>>, u the difference between the UTC and the local        *)
(* calendar day at that instant (-1 east of Greenwich shortly after local  *)
(* midnight, +1 west of it late in the evening, else 0).                   *)

TopDates == {<<2024, 2, 29>>, <<2024, 3, 3>>}

MonthInstants ==
    {<<Day20240301 - 1, 0>>,                  \* Thursday 2024-02-29
     <<Day20240301 + 3, 0>>,                  \* Monday 2024-03-04
     <<DaysFromCivil(2025, 3, 3), 0>>}        \* Monday 2025-03-03

WeekInstants ==
    {<<Day20240301 + 2, 0>>,    \* Sunday 2024-03-03
     <<Day20240301 + 2, 1>>,    \* Sunday 2024-03-03, already Monday in UTC
     <<Day20240301 + 3, 0>>,    \* Monday 2024-03-04
     <<Day20240301 + 3, -1>>}   \* Monday 2024-03-04, still Sunday in UTC

NextTop ==
    \/ \E id \in CocktailIds, rating \in {3, 5}, date \in TopDates :
           SubmitRating(id, rating, date, FALSE) /\ UNCHANGED browser
    \/ \E now \in MonthInstants, err \in BOOLEAN, api \in ApiOutcomes :
           TopRatedCocktail(now, err, api) /\ UNCHANGED browser
    \/ \E now \in WeekInstants, err \in BOOLEAN, api \in ApiOutcomes :
           TopRatedCocktailWeek(now, err, api) /\ UNCHANGED browser

SpecTop == Init /\ [][NextTop]_vars

----------------------------------------------------------------------------
(* SpecMood: the mood lookup over every content of the Moods table of at   *)
(* most MaxMoods rows.                                                     *)

MaxMoods == 3

MoodRows == [ID : CocktailIds, Mood : {"happy", "sad"}]

RECURSIVE SeqsUpTo(_, _)
SeqsUpTo(S, n) ==
    IF n = 0 THEN {<<>>}
    ELSE LET shorter == SeqsUpTo(S, n - 1)
         IN  shorter \cup {Append(q, x) : q \in shorter, x \in S}

InitMood ==
    /\ CocktailRatings = <<>>
    /\ Moods \in SeqsUpTo(MoodRows, MaxMoods)
    /\ acked = <<>>
    /\ lastResp = NoResp
    /\ NoSession

NextMood ==
    \E mood \in {"happy", "sad", "Happy"}, err \in BOOLEAN, api \in ApiOutcomes :
        CocktailByMood(mood, err, api) /\ UNCHANGED browser

SpecMood == InitMood /\ [][NextMood]_vars

----------------------------------------------------------------------------
(* The browser scripts.                                                    *)
(*                                                                         *)
(* One tab shows one document at a time.  The markup is not part of the    *)
(* sources; a DOMContentLoaded handler is attached to a document that      *)
(* holds the elements it reads: "home" runs the handler of home.js         *)
(* (#cocktailOfTheDay), "suggestion" the second handler of                 *)
(* cocktail-info.js (#suggestion, the mood buttons), "info" its first      *)
(* handler (#cocktailInfo, #submitRating, the id of the URL).  The         *)
(* handlers share nothing but the server: each reads and writes its own    *)
(* section and its own sessionStorage key.  The ingredient, name and       *)
(* letter searches call neither the rating routes nor these sections and   *)
(* are left out.                                                           *)
(*                                                                         *)
(* JavaScript runs a callback to completion, so a handler is one step.  A  *)
(* handler is an operator from the tab's state c (a record of the six      *)
(* browser variables) to the tab's state after it; the arrival of a         *)
(* response, the reading of its body and the callbacks chained on it are   *)
(* one step.  A drink record of the recipe API is written as its idDrink.  *)

Tab ==
    [sessionStorage |-> sessionStorage, page |-> page, net |-> net, dom |-> dom,
     calls |-> calls, user |-> user]

Commit(c) ==
    /\ sessionStorage' = c.sessionStorage
    /\ page' = c.page
    /\ net' = c.net
    /\ dom' = c.dom
    /\ calls' = c.calls
    /\ user' = c.user

\* fetch(...): the request leaves; cont names the callbacks chained on the
\* promise, call the display call that awaits it (0: none), and n tells the
\* exchange from the others in flight.
Fetch(c, cont, call, request) ==
    LET n == CHOOSE k \in 1..(Cardinality(c.net) + 1) : \A m \in c.net : m.n # k
    IN  [c EXCEPT !.net = @ \cup {[n |-> n, cont |-> cont, call |-> call,
                                   phase |-> "request", x |-> request]}]

\* response.json() fulfils: the exchange completed and the body is JSON.  The
\* server sends JSON with res.json only: every 200, and the 500 of
\* /average-rating; res.send of a text makes json() reject.
IsJson(x) == x.status = 200 \/ x.route = "average-rating"
JsonArrived(m) == m.phase = "response" /\ IsJson(m.x)

\* The request failed: the network did, or the server answered 404 or 500.
Failed(m) == m.phase = "error" \/ (m.phase = "response" /\ m.x.status # 200)

\* fetchAverageRating of home.js and of the second handler of cocktail-info.js:
\* the body of a 200, and the fallback object when the fetch or json() rejects
\* or the body carries an error field.
Sentinel == [averageRating |-> "Not rated", ratingCount |-> 0]

fetchAverageRating(m) ==
    IF JsonArrived(m) /\ m.x.status = 200
    THEN [averageRating |-> m.x.averageRating, ratingCount |-> m.x.ratingCount]
    ELSE Sentinel

\* The rating line of displayCocktail and displaySuggestion.
ratingText(avgData) ==
    IF avgData.averageRating # "Not rated"
    THEN "Average Rating: " \o avgData.averageRating \o " (" \o
         ToString(avgData.ratingCount) \o " ratings)"
    ELSE "Not yet rated"

\* container.innerHTML = `...`: the whole recipe with its rating line.
Recipe(drink, avgData) ==
    [kind |-> "recipe", drink |-> drink, rating |-> <<ratingText(avgData)>>]

\* The recipe written before its rating is known.
displayCall_TwoPhase(c, section, drink) ==
    LET call == Len(c.calls) + 1
        c1 == [c EXCEPT !.calls = Append(@, [section |-> section, drink |-> drink,
                                              outcome |-> "pending", writes |-> 1]),
                        !.dom[section] = [kind |-> "recipe", drink |-> drink,
                                          rating |-> <<>>]]
    IN  Fetch(c1, "display", call,
              [NoResp EXCEPT !.route = "average-rating", !.id = drink])

\* displayCocktail(drink) and displaySuggestion(drink) up to the pending
\* rating: the call asks for the average rating of the drink and writes
\* nothing yet.
displayCall(c, section, drink) ==
    LET call == Len(c.calls) + 1
        c1 == [c EXCEPT !.calls = Append(@, [section |-> section, drink |-> drink,
                                              outcome |-> "pending", writes |-> 0])]
    IN  Fetch(c1, "display", call,
              [NoResp EXCEPT !.route = "average-rating", !.id = drink])

displayCocktail(c, drink) == displayCall(c, "cocktailOfTheDay", drink)
displaySuggestion(c, drink) == displayCall(c, "suggestion", drink)

\* The rest of a display call, once its rating fetch has settled: one
\* assignment to innerHTML.  (fetchAverageRating never rejects, so neither
\* the catch of displayCocktail nor the one of displaySuggestion is entered.)
displayResumed(c, m) ==
    LET this == c.calls[m.call]
        avgData == fetchAverageRating(m)
    IN  [c EXCEPT !.dom[this.section] = Recipe(this.drink, avgData),
                  !.calls[m.call].outcome =
                      IF JsonArrived(m) /\ m.x.status = 200 THEN "resolved"
                      ELSE "sentinel",
                  !.calls[m.call].writes = @ + 1]

FailedToLoad == [kind |-> "failed", drink |-> "", rating |-> <<>>]

\* fetchCocktailOfTheDay() and fetchSuggestion(), after the fetch.
topRatedArrived(c, m, key) ==
    IF JsonArrived(m)
    THEN displayCall([c EXCEPT !.sessionStorage[key] = m.x.drink], key, m.x.drink)
    ELSE [c EXCEPT !.dom[key] = FailedToLoad]

\* window.fetchMoodSuggestion, after the fetch: the catch logs to the console.
moodArrived(c, m) ==
    IF JsonArrived(m) THEN displaySuggestion(c, m.x.drink) ELSE c

\* fetchCocktailDetails, after the fetch of the recipe API: data.drinks[0]
\* throws on {drinks: null}; the catch logs to the console.
detailsArrived(c, m) ==
    IF m.phase = "response" /\ m.x.drink # ""
    THEN Fetch([c EXCEPT !.dom.cocktailInfo =
                             [kind |-> "details", drink |-> m.x.drink, rating |-> <<>>]],
               "fetchAverageRating", 0,
               [NoResp EXCEPT !.route = "average-rating", !.id = c.page.cocktailId])
    ELSE c

\* The global fetchAverageRating of cocktail-info.js, after the fetch: any
\* JSON body is printed, the fields an error body lacks as "undefined"; the
\* paragraph goes before the second child of the section.
infoRatingArrived(c, m) ==
    IF JsonArrived(m)
    THEN LET shown == IF m.x.status = 200
                      THEN [averageRating |-> m.x.averageRating,
                            ratingCount |-> ToString(m.x.ratingCount)]
                      ELSE [averageRating |-> "undefined", ratingCount |-> "undefined"]
             text == IF shown.averageRating # "Not rated"
                     THEN "Rating: " \o shown.averageRating \o "/5 (Rated " \o
                          shown.ratingCount \o " times)"
                     ELSE "Not rated"
         IN  [c EXCEPT !.dom.cocktailInfo.rating = <<text>> \o @]
    ELSE c

\* A document is loaded: the callbacks of the one before are gone with it
\* and its display calls with them.  A POST already sent
\* still reaches the server; what else is in flight reads the database at
\* most and reaches nobody.  The sections are as the markup has them, and
\* ratedCocktails is read from sessionStorage.
Open(c, name, cocktailId) ==
    [c EXCEPT !.page = [name |-> name, cocktailId |-> cocktailId,
                        ratedCocktails |-> IF c.sessionStorage.ratedCocktails # NULL
                                           THEN c.sessionStorage.ratedCocktails
                                           ELSE <<>>],
              !.net = {[m EXCEPT !.cont = "none", !.call = 0] :
                           m \in {r \in @ : /\ r.phase = "request"
                                            /\ r.x.route = "submit-rating"}},
              !.dom = EmptyDom,
              !.calls = <<>>]

\* The DOMContentLoaded handler of home.js.
homeLoaded(c) ==
    IF c.sessionStorage.cocktailOfTheDay # ""
    THEN displayCocktail(c, c.sessionStorage.cocktailOfTheDay)
    ELSE Fetch(c, "fetchCocktailOfTheDay", 0,
               [NoResp EXCEPT !.route = "top-rated-cocktail"])

\* The second DOMContentLoaded handler of cocktail-info.js.
suggestionLoaded(c) ==
    IF c.sessionStorage.suggestion # ""
    THEN displaySuggestion(c, c.sessionStorage.suggestion)
    ELSE Fetch(c, "fetchSuggestion", 0,
               [NoResp EXCEPT !.route = "top-rated-cocktail-week"])

\* The first DOMContentLoaded handler of cocktail-info.js.
infoLoaded(c) ==
    Fetch(c, "fetchCocktailDetails", 0,
          [NoResp EXCEPT !.route = "lookup", !.id = c.page.cocktailId])

Loaded(c) ==
    CASE c.page.name = "home" -> homeLoaded(c)
      [] c.page.name = "suggestion" -> suggestionLoaded(c)
      [] OTHER -> infoLoaded(c)

Includes(array, x) == \E i \in DOMAIN array : array[i] = x

\* submitCocktailRating(cocktailId, ratedCocktails) up to the fetch; rating 0
\* stands for no radio button checked, where reading .value of null throws.
submitCocktailRating(c, rating, today) ==
    IF rating = 0 THEN c
    ELSE IF Includes(c.page.ratedCocktails, c.page.cocktailId)
    THEN [c EXCEPT !.dom.alert = "You have already rated this cocktail in this session."]
    ELSE Fetch(c, "submitCocktailRating", 0,
               [NoResp EXCEPT !.route = "submit-rating", !.id = c.page.cocktailId,
                              !.rating = rating, !.date = today])

\* submitCocktailRating after the fetch.  A body with a message: the id joins
\* ratedCocktails and sessionStorage, the average rating is asked for, and
\* location.reload() loads the document again.  (Every JSON body of the route
\* has a message.)  A text body or a failed fetch: the catch logs to the
\* console.
submitArrived(c, m) ==
    IF JsonArrived(m)
    THEN LET rated == Append(c.page.ratedCocktails, c.page.cocktailId)
             c1 == [c EXCEPT !.dom.alert = "Rating submitted successfully!",
                             !.page.ratedCocktails = rated,
                             !.sessionStorage.ratedCocktails = rated]
             c2 == Fetch(c1, "fetchAverageRating", 0,
                         [NoResp EXCEPT !.route = "average-rating",
                                        !.id = c.page.cocktailId])
         IN  Loaded(Open(c2, "info", c.page.cocktailId))
    ELSE c

\* The callbacks chained on the fetch of exchange m.
Arrived(c, m) ==
    CASE m.cont = "fetchCocktailOfTheDay" -> topRatedArrived(c, m, "cocktailOfTheDay")
      [] m.cont = "fetchSuggestion" -> topRatedArrived(c, m, "suggestion")
      [] m.cont = "fetchMoodSuggestion" -> moodArrived(c, m)
      [] m.cont = "display" -> displayResumed(c, m)
      [] m.cont = "fetchCocktailDetails" -> detailsArrived(c, m)
      [] m.cont = "fetchAverageRating" -> infoRatingArrived(c, m)
      [] m.cont = "submitCocktailRating" -> submitArrived(c, m)
      [] OTHER -> c

----------------------------------------------------------------------------
(* SpecClient: one browser session against the server.                     *)

\* The model follows this many actions of the user (navigations and clicks).
MaxEvents == 3

\* Friday 2024-03-01: new Date().toISOString().slice(0, 10) in the browser,
\* and the server's clock.
Today == <<2024, 3, 1>>

\* A step of the browser leaves the database alone and completes no exchange
\* of the server.
NoExchange == lastResp' = NoResp /\ UNCHANGED <<CocktailRatings, Moods, acked>>

\* The user opens a page (or reloads it).
Load(name, cocktailId) ==
    /\ user.events < MaxEvents
    /\ Commit(Loaded(Open([Tab EXCEPT !.user.events = @ + 1], name, cocktailId)))
    /\ NoExchange

\* A click on #submitRating.
ClickSubmitRating(rating, today) ==
    /\ page.name = "info"
    /\ user.events < MaxEvents
    /\ Commit(submitCocktailRating([Tab EXCEPT !.user.events = @ + 1], rating, today))
    /\ NoExchange

\* A click on a mood button.
ClickMood(mood) ==
    /\ page.name = "suggestion"
    /\ user.events < MaxEvents
    /\ Commit(Fetch([Tab EXCEPT !.user.events = @ + 1], "fetchMoodSuggestion", 0,
                    [NoResp EXCEPT !.route = "cocktail-by-mood", !.mood = mood]))
    /\ NoExchange

\* What the request of exchange x carried.
Request(x) ==
    [NoResp EXCEPT !.route = x.route, !.id = x.id, !.rating = x.rating,
                   !.date = x.date, !.mood = x.mood]

\* What the response of exchange x carries: the status, and the fields of a
\* JSON body.  (No script reads the text of a body sent with res.send.)
Response(x) ==
    [Request(x) EXCEPT !.status = x.status,
                       !.message = IF IsJson(x) THEN x.message ELSE "",
                       !.drink = x.drink,
                       !.averageRating = x.averageRating,
                       !.ratingCount = x.ratingCount]

\* The server answers request m: the route's exchange becomes the response.
Answer(m) ==
    /\ net' = (net \ {m}) \cup
              (IF m.cont = "none" THEN {}
               ELSE {[m EXCEPT !.phase = "response", !.x = Response(lastResp')]})
    /\ UNCHANGED <<sessionStorage, page, dom, calls, user>>

Requests(route) == {m \in net : m.phase = "request" /\ m.x.route = route}

ServeSubmitRating ==
    \E m \in Requests("submit-rating"), err \in BOOLEAN :
        SubmitRating(m.x.id, m.x.rating, m.x.date, err) /\ Answer(m)

ServeAverageRating ==
    \E m \in Requests("average-rating"), err \in BOOLEAN :
        AverageRating(m.x.id, err) /\ Answer(m)

ServeTopRatedCocktail ==
    \E m \in Requests("top-rated-cocktail"), err \in BOOLEAN, api \in ApiOutcomes :
        TopRatedCocktail(<<Day20240301, 0>>, err, api) /\ Answer(m)

ServeTopRatedCocktailWeek ==
    \E m \in Requests("top-rated-cocktail-week"), err \in BOOLEAN, api \in ApiOutcomes :
        TopRatedCocktailWeek(<<Day20240301, 0>>, err, api) /\ Answer(m)

ServeCocktailByMood ==
    \E m \in Requests("cocktail-by-mood"), err \in BOOLEAN, api \in ApiOutcomes :
        CocktailByMood(m.x.mood, err, api) /\ Answer(m)

\* The recipe API answers the browser's lookup: a drink, {drinks: null}, or
\* nothing (the fetch rejects).
Lookup(m, api) ==
    /\ net' = (net \ {m}) \cup
              (IF m.cont = "none" THEN {}
               ELSE {[m EXCEPT !.phase = IF api = "fail" THEN "error" ELSE "response",
                               !.x = CASE api = "drink" ->
                                              [m.x EXCEPT !.status = 200, !.drink = m.x.id]
                                       [] api = "empty" -> [m.x EXCEPT !.status = 200]
                                       [] OTHER -> m.x]})
    /\ UNCHANGED <<sessionStorage, page, dom, calls, user>>
    /\ NoExchange

\* The connection breaks, before the request reaches the server or before the
\* response reaches the browser: the fetch rejects.
NetworkError(m) ==
    /\ m.phase \in {"request", "response"}
    /\ net' = (net \ {m}) \cup
              (IF m.cont = "none" THEN {}
               ELSE {[m EXCEPT !.phase = "error", !.x = Request(m.x)]})
    /\ UNCHANGED <<sessionStorage, page, dom, calls, user>>
    /\ NoExchange

\* The fetch of exchange m settles and its callbacks run.
Settle(m) ==
    /\ m.phase \in {"response", "error"}
    /\ Commit(Arrived([Tab EXCEPT !.net = @ \ {m}], m))
    /\ NoExchange

NextClient ==
    \/ \E id \in CocktailIds : Load("info", id)
    \/ \E name \in {"home", "suggestion"} : Load(name, "")
    \/ \E rating \in {0, 5} : ClickSubmitRating(rating, Today)
    \/ \E mood \in {"happy", "sad"} : ClickMood(mood)
    \/ ServeSubmitRating
    \/ ServeAverageRating
    \/ ServeTopRatedCocktail
    \/ ServeTopRatedCocktailWeek
    \/ ServeCocktailByMood
    \/ \E m \in Requests("lookup"), api \in ApiOutcomes : Lookup(m, api)
    \/ \E m \in net : NetworkError(m)
    \/ \E m \in net : Settle(m)

SpecClient == Init /\ [][NextClient]_vars

----------------------------------------------------------------------------
(* SpecDisplay: the home and the suggestion document against a server      *)
(* whose table holds a rating of B from an earlier session: B is the top   *)
(* rated cocktail of the month and of the week, and A, the cocktail of the *)
(* mood "happy", is not rated.                                             *)

InitDisplay ==
    /\ CocktailRatings = <<[cocktail_id |-> "B", rating |-> 5, rated_date |-> Today]>>
    /\ Moods = <<[ID |-> "A", Mood |-> "happy"]>>
    /\ acked = <<>>
    /\ lastResp = NoResp
    /\ NoSession

NextDisplay ==
    \/ \E name \in {"home", "suggestion"} : Load(name, "")
    \/ ClickMood("happy")
    \/ ServeAverageRating
    \/ ServeTopRatedCocktail
    \/ ServeTopRatedCocktailWeek
    \/ ServeCocktailByMood
    \/ \E m \in net : NetworkError(m)
    \/ \E m \in net : Settle(m)

SpecDisplay == InitDisplay /\ [][NextDisplay]_vars

----------------------------------------------------------------------------
(* Claims about GET /average-rating/:cocktailId.                           *)

\* The positions of the rows of cocktail id in the table.
RowsOf(id) == {i \in DOMAIN CocktailRatings : CocktailRatings[i].cocktail_id = id}

RECURSIVE SumOver(_)
SumOver(I) ==
    IF I = {} THEN 0
    ELSE LET i == CHOOSE j \in I : TRUE
         IN  CocktailRatings[i].rating + SumOver(I \ {i})

\* The decimal numeral, with two decimals, of h hundredths.
Decimal2(h) ==
    ToString(h \div 100) \o "." \o ToString((h \div 10) % 10) \o ToString(h % 10)

\* The numerals of two decimals within half a hundredth of sum / n.
MeanTo2Decimals(sum, n) ==
    {Decimal2(h) : h \in {k \in 0..(100 * sum + 100) : 2 * (100 * sum - k * n) <= n
                                                     /\ 2 * (k * n - 100 * sum) <= n}}

AnsweredAverage == lastResp.route = "average-rating" /\ lastResp.status = 200

\* C1: whenever GET /average-rating/:id answers for an id that has N >= 1
\* rows, averageRating is the arithmetic mean of their ratings printed with
\* two decimals and ratingCount is N, the number of rows of that id.
C1_MeanAndCount ==
    (AnsweredAverage /\ RowsOf(lastResp.id) # {}) =>
        /\ lastResp.averageRating
               \in MeanTo2Decimals(SumOver(RowsOf(lastResp.id)),
                                   Cardinality(RowsOf(lastResp.id)))
        /\ lastResp.ratingCount = Cardinality(RowsOf(lastResp.id))

\* C2: for an id without any row, GET /average-rating/:id does not fail on the
\* empty input: unless the storage query itself fails, it answers 200 with
\* exactly averageRating = "Not rated" and ratingCount = 0.
C2_NotRated ==
    (lastResp.route = "average-rating" /\ ~lastResp.dbErr /\ RowsOf(lastResp.id) = {}) =>
        /\ lastResp.status = 200
        /\ lastResp.averageRating = "Not rated"
        /\ lastResp.ratingCount = 0

\* C2's case: an answered query for an id without rows, in a table that holds
\* rows of another id.
C2_Witness ==
    /\ AnsweredAverage
    /\ RowsOf(lastResp.id) = {}
    /\ CocktailRatings # <<>>

----------------------------------------------------------------------------
(* Claims about the rating table.                                          *)

\* The rows that the acknowledged submissions asked to store, in the order
\* of their acknowledgement.
AckedRows ==
    [i \in DOMAIN acked |->
        [cocktail_id |-> acked[i].id, rating |-> acked[i].rating,
         rated_date |-> acked[i].date]]

\* C3: once a submission has been acknowledged, its row is in the table in
\* every later state, and every later answer of GET /average-rating/:id is
\* the route's aggregate over all the rows acknowledged so far (the new row
\* among them): no query sees the table without an acknowledged row.
C3_NoStaleness ==
    /\ \A i \in DOMAIN AckedRows :
           \E j \in DOMAIN CocktailRatings : CocktailRatings[j] = AckedRows[i]
    /\ AnsweredAverage =>
           LET fresh == AverageRatingBody(AckedRows, lastResp.id)
           IN  /\ lastResp.averageRating = fresh.averageRating
               /\ lastResp.ratingCount = fresh.ratingCount

\* C3's case: a query answered after two submissions for its id were
\* acknowledged, both of them counted.
C3_Witness ==
    /\ AnsweredAverage
    /\ Cardinality({i \in DOMAIN acked : acked[i].id = lastResp.id}) = 2
    /\ lastResp.ratingCount = 2

\* C8: a submission for cocktail X leaves the answer of GET /average-rating/Y
\* unchanged for every Y # X, and an answer for an id is the aggregate of the
\* rows carrying that id at the time of the query.
C8_NoCrossCocktailLeak ==
    [][/\ lastResp'.route = "submit-rating" =>
              \A y \in CocktailIds \ {lastResp'.id} :
                  AverageRatingBody(CocktailRatings', y)
                      = AverageRatingBody(CocktailRatings, y)
       /\ (lastResp'.route = "average-rating" /\ lastResp'.status = 200) =>
              LET own == SelectSeq(CocktailRatings',
                                   LAMBDA r : r.cocktail_id = lastResp'.id)
                  body == AverageRatingBody(own, lastResp'.id)
              IN  /\ lastResp'.averageRating = body.averageRating
                  /\ lastResp'.ratingCount = body.ratingCount
      ]_vars

\* C8's case: a submission for one cocktail was acknowledged while the table
\* holds a rated row of the other.
C8_Witness ==
    /\ lastResp.route = "submit-rating"
    /\ lastResp.status = 200
    /\ \E i \in DOMAIN CocktailRatings :
           /\ CocktailRatings[i].cocktail_id # lastResp.id
           /\ CocktailRatings[i].rating > 0

\* C9: an acknowledged POST /submit-rating appends exactly its row
\* (cocktail_id, rating, rated_date) to the table, whatever the values and
\* whether or not the table holds an identical row; every other step leaves
\* the table as it is; so the table is the sequence of acknowledged
\* submissions.
C9_AppendOnly ==
    [][/\ IF lastResp'.route = "submit-rating" /\ lastResp'.status = 200
          THEN CocktailRatings' =
                   Append(CocktailRatings,
                          [cocktail_id |-> lastResp'.id, rating |-> lastResp'.rating,
                           rated_date |-> lastResp'.date])
          ELSE CocktailRatings' = CocktailRatings
       /\ CocktailRatings' = AckedRows'
      ]_vars

\* C9's case: the table holds a row twice, the second just acknowledged.
C9_Witness ==
    /\ lastResp.route = "submit-rating"
    /\ lastResp.status = 200
    /\ Len(CocktailRatings) = 2
    /\ CocktailRatings[1] = CocktailRatings[2]

----------------------------------------------------------------------------
(* Claims about the top-rated routes.  A period is stated on calendar      *)
(* days: the month, or the Monday-to-Sunday week, that holds a given day.  *)

\* The Monday on or before a day (1970-01-01 was a Thursday).
MondayOf(day) == day - ((day + 3) % 7)

InMonthOf(date, day) ==
    date # NULL /\ date[1] = Civil(day)[1] /\ date[2] = Civil(day)[2]

InWeekOf(date, day) ==
    /\ date # NULL
    /\ DaysFromCivil(date[1], date[2], date[3]) \in MondayOf(day)..(MondayOf(day) + 6)

InPeriodOf(route, date, day) ==
    IF route = "top-rated-cocktail" THEN InMonthOf(date, day) ELSE InWeekOf(date, day)

TopRoutes == {"top-rated-cocktail", "top-rated-cocktail-week"}

\* The rows of id dated inside the response's period, the period taken
\* around `today`.
InPeriodRows(id, today) ==
    {i \in RowsOf(id) : InPeriodOf(lastResp.route, CocktailRatings[i].rated_date, today)}

\* C4: the month route resolves only an id with a rating row dated inside the
\* current calendar month (month and year of today), and when no row is dated
\* inside the month it resolves no id, calls no upstream lookup and answers
\* 404 (500 only if the query itself fails).
C4_MonthOnly ==
    lastResp.route = "top-rated-cocktail" =>
        /\ lastResp.resolved # "" => InPeriodRows(lastResp.resolved, lastResp.now) # {}
        /\ (~lastResp.dbErr /\ \A id \in CocktailIds : InPeriodRows(id, lastResp.now) = {}) =>
               /\ lastResp.status = 404
               /\ lastResp.resolved = ""
               /\ ~lastResp.apiCalled

\* C4's case: the month route resolves an id while the other id has rows,
\* all of them dated outside the current month.
C4_Witness ==
    /\ lastResp.route = "top-rated-cocktail"
    /\ lastResp.resolved # ""
    /\ \E id \in CocktailIds \ {lastResp.resolved} :
           RowsOf(id) # {} /\ InPeriodRows(id, lastResp.now) = {}

\* The resolved id has rows inside the period around `today`, and their mean
\* is at least the in-period mean of every other id with rows in the period.
HasMaxMeanInPeriod(today) ==
    LET mine == InPeriodRows(lastResp.resolved, today)
    IN  /\ mine # {}
        /\ \A id \in CocktailIds :
               LET theirs == InPeriodRows(id, today)
               IN  theirs # {} =>
                       SumOver(mine) * Cardinality(theirs)
                           >= SumOver(theirs) * Cardinality(mine)

\* C5: the id resolved by the month and the week route has the greatest mean
\* over the rows dated inside the period (the current month, the current
\* Monday-to-Sunday week); rows dated outside the period do not count.  The
\* claim is taken to hold if it holds for either reading of "current": the
\* server's local day or the UTC day of the request.
C5_MaxMeanInPeriod ==
    (lastResp.route \in TopRoutes /\ lastResp.resolved # "") =>
        \/ HasMaxMeanInPeriod(lastResp.now)
        \/ HasMaxMeanInPeriod(lastResp.now + lastResp.utc)

\* C6: two consecutive runs of a top-rated route at the same instant over the
\* same table resolve the same cocktail id.
C6_DeterministicTieBreak ==
    [][(/\ lastResp.route \in TopRoutes
        /\ lastResp'.route = lastResp.route
        /\ lastResp'.now = lastResp.now
        /\ lastResp'.utc = lastResp.utc
        /\ CocktailRatings' = CocktailRatings
        /\ lastResp.resolved # ""
        /\ lastResp'.resolved # "")
       => lastResp'.resolved = lastResp.resolved]_vars

\* C7: the week the week route queries starts on the Monday of the
\* Monday-to-Sunday week that holds today (today read as the local or as the
\* UTC day) and ends exactly 6 days later.
C7_WeekBoundaries ==
    lastResp.route = "top-rated-cocktail-week" =>
        /\ \/ lastResp.from = Civil(MondayOf(lastResp.now))
           \/ lastResp.from = Civil(MondayOf(lastResp.now + lastResp.utc))
        /\ lastResp.to = Civil(DaysFromCivil(lastResp.from[1], lastResp.from[2],
                                             lastResp.from[3]) + 6)

----------------------------------------------------------------------------
(* Claims about GET /cocktail-by-mood.                                     *)

\* The ids the Moods table holds for exactly this label.
IdsOfMood(mood) == {Moods[i].ID : i \in {j \in DOMAIN Moods : Moods[j].Mood = mood}}

\* C10: unless the query itself fails, a label held for exactly one id
\* resolves that id and looks it up on the external API; a label that no
\* entry matches exactly resolves none, makes no external call and answers
\* 404.
C10_MoodLookup ==
    (lastResp.route = "cocktail-by-mood" /\ ~lastResp.dbErr) =>
        /\ Cardinality(IdsOfMood(lastResp.mood)) = 1 =>
               /\ lastResp.resolved \in IdsOfMood(lastResp.mood)
               /\ lastResp.apiCalled
               /\ lastResp.status = 200 => lastResp.drink = lastResp.resolved
        /\ IdsOfMood(lastResp.mood) = {} =>
               /\ lastResp.resolved = ""
               /\ ~lastResp.apiCalled
               /\ lastResp.status = 404

\* C10's case: the label is held by two rows of one id, beside a row of the
\* other id under another label, and the lookup hydrated that id.
C10_Witness ==
    /\ lastResp.route = "cocktail-by-mood"
    /\ lastResp.status = 200
    /\ Cardinality(IdsOfMood(lastResp.mood)) = 1
    /\ Cardinality({i \in DOMAIN Moods : Moods[i].Mood = lastResp.mood}) = 2
    /\ Len(Moods) = 3
    /\ lastResp.drink \in IdsOfMood(lastResp.mood)
----------------------------------------------------------------------------
(* Claims about the browser scripts.                                       *)

\* C11: in one browser session, whatever the order of the clicks on the
\* submit-rating button, of the server's responses and of the page loads, at
\* most one rating of a given cocktail is sent to POST /submit-rating and
\* stored: the table, empty when the session starts, never holds two rows of
\* one cocktail id.
C11_OneRatingPerSession ==
    \A id \in CocktailIds : Cardinality(RowsOf(id)) <= 1

\* The section the callbacks of exchange m are to fill.
Target(m) ==
    CASE m.cont = "fetchCocktailOfTheDay" -> "cocktailOfTheDay"
      [] m.cont \in {"fetchSuggestion", "fetchMoodSuggestion"} -> "suggestion"
      [] m.cont = "display" -> calls[m.call].section
      [] OTHER -> "cocktailInfo"

\* The section shows a "failed to load" or a "not rated" message.
PlaceholderShown(section) ==
    \/ section.kind = "failed"
    \/ \E i \in DOMAIN section.rating : section.rating[i] \in {"Not yet rated", "Not rated"}

\* C12: whichever request of the browser fails (top-rated month, top-rated
\* week, cocktail by mood, detail lookup, average rating, submit rating),
\* the callbacks that handle the failure (the step Settle of the exchange)
\* send no request to the same route again, and they leave a "failed to load" or "not rated" message in the
\* section the request was to fill.
C12_FailureShowsPlaceholder ==
    [][\A m \in net :
           (Settle(m) /\ Failed(m)) =>
               /\ \A k \in net' \ net : k.x.route # m.x.route
               /\ PlaceholderShown(dom'[Target(m)])]_vars

\* The rating fetch of display call i settles in this step.
RatingSettles(i) ==
    \E m \in net :
        /\ m.cont = "display" /\ m.call = i
        /\ m.x.route = "average-rating" /\ m.x.id = calls[i].drink
        /\ Settle(m)

\* C13: a display call of the cocktail of the day or of the weekly or mood
\* suggestion writes its section exactly once, in the step in which the
\* average-rating fetch for its drink settles, with the rating of the
\* response or with the fallback 'Not rated': nothing of the recipe is
\* written while the rating is pending, and after a failed rating fetch the
\* section holds the whole recipe with the line 'Not yet rated'.
C13_RenderOnceAfterRating ==
    [][/\ \A i \in DOMAIN calls' :
             /\ calls'[i].writes <= 1
             /\ calls'[i].writes = 1 <=> calls'[i].outcome # "pending"
       /\ \A i \in DOMAIN calls :
             (i \in DOMAIN calls' /\ calls'[i].writes > calls[i].writes) =>
                 /\ RatingSettles(i)
                 /\ dom'[calls[i].section].kind = "recipe"
                 /\ dom'[calls[i].section].drink = calls[i].drink
                 /\ Len(dom'[calls[i].section].rating) = 1
                 /\ calls'[i].outcome = "sentinel" =>
                        dom'[calls[i].section].rating = <<"Not yet rated">>
       /\ \A section \in {"cocktailOfTheDay", "suggestion"} :
             (dom'[section] # dom[section] /\ dom'[section].kind = "recipe") =>
                 \E i \in DOMAIN calls : calls[i].section = section /\ RatingSettles(i)
       /\ \A i \in DOMAIN calls :
             (calls[i].outcome = "pending" /\ RatingSettles(i)) =>
                 calls'[i].writes = 1]_vars

\* Two display calls of the suggestion document have written the section,
\* one with the rating of the response, one after a failed rating fetch.
C13_Witness ==
    \E i, j \in DOMAIN calls :
        /\ calls[i].section = "suggestion" /\ calls[j].section = "suggestion"
        /\ calls[i].outcome = "sentinel" /\ calls[i].writes = 1
        /\ calls[j].outcome = "resolved" /\ calls[j].writes = 1
        /\ dom.suggestion.kind = "recipe"
        /\ page.name = "suggestion"
        /\ net = {}

====
